---- MODULE Spec2Model ----
(***************************************************************************)
(* Model of the SSH-config host resolver, src/get_host.py.                 *)
(*                                                                         *)
(* Strings are sequences of one-character strings, so that strip(),        *)
(* split() and lower() are computed character by character.  Python dicts  *)
(* are insertion-ordered sequences of key/value pairs with unique keys.    *)
(* The per-host dicts are objects on a heap and the directory stores       *)
(* references to them, as in Python.                                       *)
(***************************************************************************)
EXTENDS Integers, Sequences, FiniteSets, TLC

\* ------------------------------------------------------------------ bounds
MaxLines == 3
MaxUnreadableLines == 1

\* -------------------------------------------------------------- characters
SP == " "
TAB == "\t"
NL == "\n"

Whitespace == {SP, TAB, NL}

UpperLetters == <<"A","B","C","D","E","F","G","H","I","J","K","L","M",
                  "N","O","P","Q","R","S","T","U","V","W","X","Y","Z">>
LowerLetters == <<"a","b","c","d","e","f","g","h","i","j","k","l","m",
                  "n","o","p","q","r","s","t","u","v","w","x","y","z">>

\* str.isspace() of one character
IsSpace(c) == c \in Whitespace

\* str.lower() of one character
LowerChar(c) ==
    IF \E i \in 1..26 : UpperLetters[i] = c
    THEN LowerLetters[CHOOSE i \in 1..26 : UpperLetters[i] = c]
    ELSE c

\* str.upper() of one character
UpperChar(c) ==
    IF \E i \in 1..26 : LowerLetters[i] = c
    THEN UpperLetters[CHOOSE i \in 1..26 : LowerLetters[i] = c]
    ELSE c

\* str.lower()
StrLower(s) == [i \in 1..Len(s) |-> LowerChar(s[i])]

\* str.upper()
StrUpper(s) == [i \in 1..Len(s) |-> UpperChar(s[i])]

\* s[i:] of a Python string, i counted from 1
Drop(s, i) == SubSeq(s, i, Len(s))

RECURSIVE LStrip(_)
LStrip(s) == IF s # <<>> /\ IsSpace(s[1]) THEN LStrip(Tail(s)) ELSE s

RECURSIVE RStrip(_)
RStrip(s) ==
    IF s # <<>> /\ IsSpace(s[Len(s)]) THEN RStrip(SubSeq(s, 1, Len(s) - 1)) ELSE s

\* str.strip()
Strip(s) == LStrip(RStrip(s))

\* length of the longest prefix of s without whitespace
RECURSIVE TokenLen(_)
TokenLen(s) == IF s = <<>> \/ IsSpace(s[1]) THEN 0 ELSE 1 + TokenLen(Tail(s))

\* str.split() in place of split(None, 1): the second part stops at the
\* next run of whitespace
Split1_EveryRun(s) ==
    LET t == LStrip(s)
        n == TokenLen(t)
        rest == LStrip(Drop(t, n + 1))
    IN  IF t = <<>> THEN <<>>
        ELSE IF rest = <<>> THEN <<SubSeq(t, 1, n)>>
        ELSE <<SubSeq(t, 1, n), SubSeq(rest, 1, TokenLen(rest))>>

\* str.split(None, 1): at most one split, at the first run of whitespace
Split1(s) ==
    LET t == LStrip(s)
        n == TokenLen(t)
        rest == LStrip(Drop(t, n + 1))
    IN  IF t = <<>> THEN <<>>
        ELSE IF rest = <<>> THEN <<SubSeq(t, 1, n)>>
        ELSE <<SubSeq(t, 1, n), rest>>

\* str.startswith(c) for a one-character prefix
StartsWith(s, c) == s # <<>> /\ s[1] = c

\* True when a is a contiguous substring of b (Python: a in b)
IsSubstring(a, b) ==
    \E i \in 0..(Len(b) - Len(a)) : SubSeq(b, i + 1, i + Len(a)) = a

\* ------------------------------------------------------------------ values
\* Optional[str]: None or a string
NoneV == [some |-> FALSE, v |-> <<>>]
Some(s) == [some |-> TRUE, v |-> s]

\* the tests of lines 66, 73 and 78 left out
Truthy_Always(o) == TRUE

\* Python truthiness of an Optional[str]: None and "" are falsy
Truthy(o) == o.some /\ o.v # <<>>

\* values stored in a host's dict: the int line number or a str
IntVal(n) == [isInt |-> TRUE, n |-> n, s |-> <<>>]
StrVal(s) == [isInt |-> FALSE, n |-> 0, s |-> s]

\* ------------------------------------------------------------------- dicts
\* a dict is a sequence of [k, v] pairs, keys unique, in insertion order
EmptyDict == <<>>

DictKeys(d) == [i \in 1..Len(d) |-> d[i].k]

DictHas(d, key) == \E i \in 1..Len(d) : d[i].k = key

DictIndex(d, key) == CHOOSE i \in 1..Len(d) : d[i].k = key

\* d[key], for a key that is present
DictGet(d, key) == d[DictIndex(d, key)].v

\* d.setdefault(key, val): an existing key keeps its value
DictSet_KeepFirst(d, key, val) ==
    IF DictHas(d, key) THEN d ELSE Append(d, [k |-> key, v |-> val])

\* d[key] = val: an existing key keeps its position, a new key is appended
DictSet(d, key, val) ==
    IF DictHas(d, key)
    THEN [d EXCEPT ![DictIndex(d, key)] = [k |-> key, v |-> val]]
    ELSE Append(d, [k |-> key, v |-> val])

\* del d[key], for a key that is present
DictDel(d, key) ==
    LET i == DictIndex(d, key)
    IN  SubSeq(d, 1, i - 1) \o SubSeq(d, i + 1, Len(d))

\* --------------------------------------------------------- words and lines
w_Host == <<"H","o","s","t">>
w_host == <<"h","o","s","t">>
w_HOST == <<"H","O","S","T">>
w_HostName == <<"H","o","s","t","N","a","m","e">>
w_hostname == <<"h","o","s","t","n","a","m","e">>
w_PORT == <<"P","O","R","T">>
w_line_number == <<"l","i","n","e","_","n","u","m","b","e","r">>
w_dev == <<"d","e","v">>
w_Dev == <<"D","e","v">>
w_DEV == <<"D","E","V">>
w_prod == <<"m","y","-","p","r","o","d","-","1">>
w_PROD == <<"P","R","O","D">>
w_ip == <<"1","0",".","0",".","0",".","5">>
w_2_2 == <<"2",SP,SP,"2">>
w_x == <<"x">>

\* the lines a configuration file is made of (without their newline)
LinePool ==
    { w_Host \o <<SP>> \o w_dev,                       \* Host dev
      w_host \o <<SP>> \o w_Dev,                       \* host Dev
      <<SP>> \o w_HOST \o <<TAB>> \o w_prod \o <<SP>>, \* " HOST\tmy-prod-1 "
      w_HostName \o <<SP>> \o w_ip,                    \* HostName 10.0.0.5
      w_hostname \o <<SP>> \o w_dev,                   \* hostname dev
      <<TAB>> \o w_PORT \o <<SP,SP>> \o w_2_2 \o <<SP>>, \* "\tPORT  2  2 "
      <<SP,"#",SP>> \o w_Host \o <<SP>> \o w_x,        \* " # Host x"
      <<SP>>,                                          \* blank
      w_Host }                                         \* Host (no alias)

FilesUpTo(n) == UNION { [1..m -> LinePool] : m \in 0..n }

\* file-system condition of the configuration path
FsStates == {"ok", "missing", "statdenied", "opendenied", "undecodable"}

\* arguments the callers pass to the lookups
QueryArgs == {w_dev, w_DEV, w_ip, w_PROD}

\* -------------------------------------------------------------------- state
VARIABLES
    fs,             \* condition of the path on disk
    file,           \* content of the file on disk: its lines
    pc,             \* position in __init__ / _parse_config, or "done"/"raised"
    fh,             \* the file handle: "none", "open" or "closed"
    diag,           \* the last diagnostic message printed
    hosts,          \* self.hosts: dict alias -> reference to a host dict
    heap,           \* the dict objects, by reference
    lines,          \* local lines of _parse_config
    line_num,       \* local line_num of the loop
    current_host,   \* local current_host
    current_config, \* local current_config: a reference
    result          \* what the last lookup returned to the caller

vars == <<fs, file, pc, fh, diag, hosts, heap, lines, line_num,
          current_host, current_config, result>>

NoResult == [op |-> "none", arg |-> <<>>, ret |-> <<>>]

\* ---------------------------------------------------------------- the parse
\* f.readlines(): every line keeps its newline
ReadLines(content) == [i \in 1..Len(content) |-> content[i] \o <<NL>>]

\* line 53 without the test for comments
IsSkipped_NoComments(line) == line = <<>>

\* line 53: empty lines and comments
IsSkipped(line) == line = <<>> \/ StartsWith(line, "#")

\* line 61 without lower()
Key_AsWritten(parts) == parts[1]

\* line 61
Key(parts) == StrLower(parts[1])

\* line 71 starting the host with an empty dict
NewConfig_Empty(n) == EmptyDict

\* line 71
NewConfig(n) == <<[k |-> w_line_number, v |-> IntVal(n)]>>

\* lines 66-67 and 78-79 saving only an alias that is not yet known
Commit_FirstWins(st) ==
    IF Truthy(st.current_host) /\ ~DictHas(st.hosts, st.current_host.v)
    THEN DictSet(st.hosts, st.current_host.v, st.current_config)
    ELSE st.hosts

\* lines 66-67 and 78-79: save the host being accumulated
Commit(st) ==
    IF Truthy(st.current_host)
    THEN DictSet(st.hosts, st.current_host.v, st.current_config)
    ELSE st.hosts

\* lines 46-47: the locals before the loop
BeginParse(h, hp) ==
    [hosts |-> h, heap |-> Append(hp, EmptyDict),
     current_host |-> NoneV, current_config |-> Len(hp) + 1]

\* lines 50-75 storing only the directives of a fixed list of keys
ProcessLine_KnownKeys(st, rawline, n) ==
    LET line == Strip(rawline)
    IN  IF IsSkipped(line) THEN st
        ELSE LET parts == Split1(line)
             IN  IF Len(parts) < 2 THEN st
                 ELSE LET key == Key(parts)
                          value == parts[2]
                      IN  IF key = w_host
                          THEN [hosts |-> Commit(st),
                                heap |-> Append(st.heap, NewConfig(n)),
                                current_host |-> Some(value),
                                current_config |-> Len(st.heap) + 1]
                          ELSE IF Truthy(st.current_host)
                                    /\ key \in {w_hostname, StrLower(w_PORT)}
                          THEN [st EXCEPT !.heap[st.current_config] =
                                            DictSet(@, key, StrVal(value))]
                          ELSE st

\* lines 50-75 storing a host in the directory as soon as it is declared
ProcessLine_EagerCommit(st, rawline, n) ==
    LET line == Strip(rawline)
    IN  IF IsSkipped(line) THEN st
        ELSE LET parts == Split1(line)
             IN  IF Len(parts) < 2 THEN st
                 ELSE LET key == Key(parts)
                          value == parts[2]
                      IN  IF key = w_host
                          THEN [hosts |-> DictSet(st.hosts, value, Len(st.heap) + 1),
                                heap |-> Append(st.heap, NewConfig(n)),
                                current_host |-> Some(value),
                                current_config |-> Len(st.heap) + 1]
                          ELSE IF Truthy(st.current_host)
                          THEN [st EXCEPT !.heap[st.current_config] =
                                            DictSet(@, key, StrVal(value))]
                          ELSE st

\* lines 50-75 testing the keyword before the number of parts: a Host
\* keyword without an alias saves the current host and leaves none current
ProcessLine_LoneHostCloses(st, rawline, n) ==
    LET line == Strip(rawline)
    IN  IF IsSkipped(line) THEN st
        ELSE LET parts == Split1(line)
             IN  IF Len(parts) < 2
                 THEN IF Key(parts) = w_host
                      THEN [hosts |-> Commit(st),
                            heap |-> Append(st.heap, EmptyDict),
                            current_host |-> NoneV,
                            current_config |-> Len(st.heap) + 1]
                      ELSE st
                 ELSE LET key == Key(parts)
                          value == parts[2]
                      IN  IF key = w_host
                          THEN [hosts |-> Commit(st),
                                heap |-> Append(st.heap, NewConfig(n)),
                                current_host |-> Some(value),
                                current_config |-> Len(st.heap) + 1]
                          ELSE IF Truthy(st.current_host)
                          THEN [st EXCEPT !.heap[st.current_config] =
                                            DictSet(@, key, StrVal(value))]
                          ELSE st

\* lines 50-75: the body of the loop for one line
ProcessLine(st, rawline, n) ==
    LET line == Strip(rawline)
    IN  IF IsSkipped(line) THEN st
        ELSE LET parts == Split1(line)
             IN  IF Len(parts) < 2 THEN st
                 ELSE LET key == Key(parts)
                          value == parts[2]
                      IN  IF key = w_host
                          THEN [hosts |-> Commit(st),
                                heap |-> Append(st.heap, NewConfig(n)),
                                current_host |-> Some(value),
                                current_config |-> Len(st.heap) + 1]
                          ELSE IF Truthy(st.current_host)
                          THEN [st EXCEPT !.heap[st.current_config] =
                                            DictSet(@, key, StrVal(value))]
                          ELSE st

\* lines 77-79 left out: the last host is forgotten
FinalCommit_Forgotten(st) == st

\* lines 77-79
FinalCommit(st) == [st EXCEPT !.hosts = Commit(st)]

RECURSIVE ParseFrom(_, _, _)
ParseFrom(st, ls, n) ==
    IF n > Len(ls) THEN FinalCommit(st)
    ELSE ParseFrom(ProcessLine(st, ls[n], n), ls, n + 1)

\* lines 46-79 on the lines read from a readable file
ParseLines(ls) == ParseFrom(BeginParse(EmptyDict, <<>>), ls, 1)

\* the directory with every reference replaced by the dict it points to
Resolve(h, hp) == [i \in 1..Len(h) |-> [k |-> h[i].k, v |-> hp[h[i].v]]]

Directory == Resolve(hosts, heap)

\* the directory _parse_config builds from a readable file
DirectoryOf(content) ==
    LET st == ParseLines(ReadLines(content)) IN Resolve(st.hosts, st.heap)

\* ------------------------------------------------------------------- Init
\* entry of _parse_config: line 30 has set self.hosts = {}
Init ==
    /\ fs \in FsStates
    /\ file \in CASE fs = "ok" -> FilesUpTo(MaxLines)
                  [] fs = "missing" -> {<<>>}
                  [] OTHER -> FilesUpTo(MaxUnreadableLines)
    /\ pc = "exists"
    /\ fh = "none"
    /\ diag = "none"
    /\ hosts = EmptyDict
    /\ heap = <<>>
    /\ lines = <<>>
    /\ line_num = 0
    /\ current_host = NoneV
    /\ current_config = 0
    /\ result = NoResult

\* ------------------------------------------------------------ _parse_config
\* lines 35-37 with a test that raises when the path is missing
ExistsCheck_Raising ==
    /\ pc = "exists"
    /\ \/ /\ fs \in {"missing", "statdenied"}
          /\ pc' = "raised"
       \/ /\ fs \notin {"missing", "statdenied"}
          /\ pc' = "open"
    /\ UNCHANGED <<fs, file, fh, diag, hosts, heap, lines, line_num,
                   current_host, current_config, result>>

\* lines 35-37: Path.exists().  When stat() fails with an errno other than
\* ENOENT, ENOTDIR, EBADF or ELOOP (EACCES on a parent directory,
\* ENAMETOOLONG), the pathlib of Python 3.11 lets the OSError propagate out
\* of exists(); a pathlib that answers through os.path.exists() yields False.
ExistsCheck ==
    /\ pc = "exists"
    /\ \/ /\ fs = "missing"
          /\ diag' = "notfound"
          /\ pc' = "done"
       \/ /\ fs = "statdenied"
          /\ \/ pc' = "raised" /\ diag' = diag
             \/ pc' = "done" /\ diag' = "notfound"
       \/ /\ fs \notin {"missing", "statdenied"}
          /\ diag' = diag
          /\ pc' = "open"
    /\ UNCHANGED <<fs, file, fh, hosts, heap, lines, line_num,
                   current_host, current_config, result>>

\* line 40: open(); every exception is caught at lines 42-44
OpenFile ==
    /\ pc = "open"
    /\ \/ /\ fs \in {"opendenied", "missing"}
          /\ diag' = "readerror"
          /\ pc' = "done"
          /\ fh' = fh
       \/ /\ fs \notin {"opendenied", "missing"}
          /\ fh' = "open"
          /\ pc' = "read"
          /\ diag' = diag
    /\ UNCHANGED <<fs, file, hosts, heap, lines, line_num,
                   current_host, current_config, result>>

\* lines 41-47 without the with block: a failing read leaves the file open
ReadFile_Leak ==
    /\ pc = "read"
    /\ \/ /\ fs = "undecodable"
          /\ diag' = "readerror"
          /\ pc' = "done"
          /\ UNCHANGED <<fh, heap, lines, line_num, current_host, current_config>>
       \/ /\ fs # "undecodable"
          /\ fh' = "closed"
          /\ lines' = ReadLines(file)
          /\ LET st == BeginParse(hosts, heap)
             IN  /\ heap' = st.heap
                 /\ current_host' = st.current_host
                 /\ current_config' = st.current_config
          /\ line_num' = 1
          /\ pc' = "loop"
          /\ diag' = diag
    /\ UNCHANGED <<fs, file, hosts, result>>

\* lines 41-47: readlines(), leaving the with block, the locals of the loop
ReadFile ==
    /\ pc = "read"
    /\ fh' = "closed"
    /\ \/ /\ fs = "undecodable"
          /\ diag' = "readerror"
          /\ pc' = "done"
          /\ UNCHANGED <<heap, lines, line_num, current_host, current_config>>
       \/ /\ fs # "undecodable"
          /\ lines' = ReadLines(file)
          /\ LET st == BeginParse(hosts, heap)
             IN  /\ heap' = st.heap
                 /\ current_host' = st.current_host
                 /\ current_config' = st.current_config
          /\ line_num' = 1
          /\ pc' = "loop"
          /\ diag' = diag
    /\ UNCHANGED <<fs, file, hosts, result>>

ParserState ==
    [hosts |-> hosts, heap |-> heap,
     current_host |-> current_host, current_config |-> current_config]

\* one iteration of the loop that stores only the keys of a fixed list
ParseLine_KnownKeys ==
    /\ pc = "loop"
    /\ line_num <= Len(lines)
    /\ LET st == ProcessLine_KnownKeys(ParserState, lines[line_num], line_num)
       IN  /\ hosts' = st.hosts
           /\ heap' = st.heap
           /\ current_host' = st.current_host
           /\ current_config' = st.current_config
    /\ line_num' = line_num + 1
    /\ UNCHANGED <<fs, file, pc, fh, diag, lines, result>>

\* lines 49-75: one iteration of the loop
ParseLine ==
    /\ pc = "loop"
    /\ line_num <= Len(lines)
    /\ LET st == ProcessLine(ParserState, lines[line_num], line_num)
       IN  /\ hosts' = st.hosts
           /\ heap' = st.heap
           /\ current_host' = st.current_host
           /\ current_config' = st.current_config
    /\ line_num' = line_num + 1
    /\ UNCHANGED <<fs, file, pc, fh, diag, lines, result>>

\* lines 77-79: after the last line
ParseEnd ==
    /\ pc = "loop"
    /\ line_num > Len(lines)
    /\ hosts' = FinalCommit(ParserState).hosts
    /\ pc' = "done"
    /\ UNCHANGED <<fs, file, fh, diag, heap, lines, line_num,
                   current_host, current_config, result>>

\* ----------------------------------------------------------------- lookups
NoneRef == [some |-> FALSE, v |-> 0]
SomeRef(r) == [some |-> TRUE, v |-> r]

\* line 91 looking the alias up without regard to letter case
get_host_AnyCase(h, hostname) ==
    IF \E i \in 1..Len(h) : StrLower(h[i].k) = StrLower(hostname)
    THEN SomeRef(h[CHOOSE i \in 1..Len(h) :
                        StrLower(h[i].k) = StrLower(hostname)].v)
    ELSE NoneRef

\* line 91: dict.get(hostname)
get_host(h, hostname) ==
    IF DictHas(h, hostname) THEN SomeRef(DictGet(h, hostname)) ELSE NoneRef

\* line 100: list(dict.keys())
list_hosts(h) == DictKeys(h)

\* line 109: dict.copy(), a new dict holding the same references
get_all_hosts(h) == h

\* line 125 without host.lower()
Matches_HostAsWritten(pattern_lower, host) == IsSubstring(pattern_lower, host)

\* line 125
Matches(pattern_lower, host) == IsSubstring(pattern_lower, StrLower(host))

\* lines 124-126 from item i on
RECURSIVE SearchFrom(_, _, _, _)
SearchFrom(h, pattern_lower, i, matching_hosts) ==
    IF i > Len(h) THEN matching_hosts
    ELSE SearchFrom(h, pattern_lower, i + 1,
                    IF Matches(pattern_lower, h[i].k)
                    THEN DictSet(matching_hosts, h[i].k, h[i].v)
                    ELSE matching_hosts)

\* lines 121-128
search_hosts(h, pattern) == SearchFrom(h, StrLower(pattern), 1, EmptyDict)

\* line 145: config.get('hostname') == ip_address
HostNameIs(config, ip_address) ==
    DictHas(config, w_hostname) /\ DictGet(config, w_hostname) = StrVal(ip_address)

\* lines 142-146 without the test of the alias itself
IpTest_HostNameOnly(host, config, ip_address) == HostNameIs(config, ip_address)

\* lines 142-146: the two tests on one item
IpTest(host, config, ip_address) ==
    host = ip_address \/ HostNameIs(config, ip_address)

\* lines 140-148 as two passes: all aliases first, then all hostnames
FindFrom_AliasesFirst(h, hp, ip_address, i) ==
    IF DictHas(h, ip_address) THEN Some(ip_address)
    ELSE IF \E j \in i..Len(h) : HostNameIs(hp[h[j].v], ip_address)
    THEN Some(h[CHOOSE j \in i..Len(h) :
                   /\ HostNameIs(hp[h[j].v], ip_address)
                   /\ \A m \in i..(j - 1) : ~HostNameIs(hp[h[m].v], ip_address)].k)
    ELSE NoneV

\* lines 140-148 from item i on
RECURSIVE FindFrom(_, _, _, _)
FindFrom(h, hp, ip_address, i) ==
    IF i > Len(h) THEN NoneV
    ELSE IF IpTest(h[i].k, hp[h[i].v], ip_address) THEN Some(h[i].k)
    ELSE FindFrom(h, hp, ip_address, i + 1)

find_host_by_ip(h, hp, ip_address) == FindFrom(h, hp, ip_address, 1)

Returned == <<fs, file, pc, fh, diag, hosts, heap, lines, line_num,
              current_host, current_config>>

\* line 91 written self.hosts[hostname]: KeyError for an unknown alias
CallGetHost_Subscript ==
    /\ pc = "done"
    /\ \E a \in QueryArgs :
          /\ result' = [op |-> "get_host", arg |-> a, ret |-> get_host(hosts, a)]
          /\ pc' = IF DictHas(hosts, a) THEN "done" ELSE "raised"
    /\ UNCHANGED <<fs, file, fh, diag, hosts, heap, lines, line_num,
                   current_host, current_config>>

CallGetHost ==
    /\ pc = "done"
    /\ \E a \in QueryArgs :
          result' = [op |-> "get_host", arg |-> a, ret |-> get_host(hosts, a)]
    /\ UNCHANGED Returned

\* line 100 on a directory parsed again from the file at every call
CallListHosts_Reparse ==
    /\ pc = "done"
    /\ result' = [op |-> "list_hosts", arg |-> <<>>,
                  ret |-> IF fs = "ok"
                          THEN list_hosts(ParseLines(ReadLines(file)).hosts)
                          ELSE <<>>]
    /\ UNCHANGED Returned

CallListHosts ==
    /\ pc = "done"
    /\ result' = [op |-> "list_hosts", arg |-> <<>>, ret |-> list_hosts(hosts)]
    /\ UNCHANGED Returned

CallGetAllHosts ==
    /\ pc = "done"
    /\ result' = [op |-> "get_all_hosts", arg |-> <<>>,
                  ret |-> get_all_hosts(hosts)]
    /\ UNCHANGED Returned

CallSearchHosts ==
    /\ pc = "done"
    /\ \E p \in QueryArgs :
          result' = [op |-> "search_hosts", arg |-> p,
                     ret |-> search_hosts(hosts, p)]
    /\ UNCHANGED Returned

CallFindHostByIp ==
    /\ pc = "done"
    /\ \E a \in QueryArgs :
          result' = [op |-> "find_host_by_ip", arg |-> a,
                     ret |-> find_host_by_ip(hosts, heap, a)]
    /\ UNCHANGED Returned

Lookup ==
    \/ CallGetHost
    \/ CallListHosts
    \/ CallGetAllHosts
    \/ CallSearchHosts
    \/ CallFindHostByIp

Construct == ExistsCheck \/ OpenFile \/ ReadFile \/ ParseLine \/ ParseEnd

Next == Construct \/ Lookup

Spec == Init /\ [][Next]_vars

\* ------------------------------------------------------------ the caller
\* What a caller can do with the dict that get_all_hosts() handed out
\* (line 109): it owns the outer dict, and the host dicts inside it are the
\* objects the references point to.
HasSnapshot == pc = "done" /\ result.op = "get_all_hosts"

\* the snapshot and the host dicts are as the parser left them: the caller
\* is followed up to its first mutation, and through the lookups after it
Untouched == result.ret = hosts /\ heap = ParseLines(lines).heap

\* snapshot[new] = snapshot[alias]
ClientAddAlias ==
    /\ HasSnapshot
    /\ Untouched
    /\ result.ret # EmptyDict
    /\ ~DictHas(result.ret, w_x)
    /\ result' = [result EXCEPT !.ret = DictSet(@, w_x, result.ret[1].v)]
    /\ UNCHANGED Returned

\* del snapshot[alias]
ClientDelAlias ==
    /\ HasSnapshot
    /\ Untouched
    /\ \E i \in 1..Len(result.ret) :
          result' = [result EXCEPT !.ret = DictDel(@, result.ret[i].k)]
    /\ UNCHANGED Returned

\* snapshot[alias][key] = value
ClientSetDirective ==
    /\ HasSnapshot
    /\ Untouched
    /\ \E i \in 1..Len(result.ret) :
          heap' = [heap EXCEPT ![result.ret[i].v] =
                                 DictSet(@, w_hostname, StrVal(w_x))]
    /\ UNCHANGED <<fs, file, pc, fh, diag, hosts, lines, line_num,
                   current_host, current_config, result>>

\* del snapshot[alias][key]
ClientDelDirective ==
    /\ HasSnapshot
    /\ Untouched
    /\ \E i \in 1..Len(result.ret) :
          \E j \in 1..Len(heap[result.ret[i].v]) :
              heap' = [heap EXCEPT ![result.ret[i].v] = DictDel(@, @[j].k)]
    /\ UNCHANGED <<fs, file, pc, fh, diag, hosts, lines, line_num,
                   current_host, current_config, result>>

ClientMutation ==
    \/ ClientAddAlias
    \/ ClientDelAlias
    \/ ClientSetDirective
    \/ ClientDelDirective

NextClient == Next \/ ClientMutation

\* the parser together with a caller that mutates what it was handed
SpecClient == Init /\ [][NextClient]_vars

\* ------------------------------------------------- reading the file by hand
\* These definitions describe a configuration file without running the
\* parser; the properties below compare the parser's directory with them.

\* the line with surrounding whitespace and its newline removed
Bare(l) == Strip(l)

\* a comment: the first character that is not whitespace is #
IsCommentLine(l) ==
    \E i \in 1..Len(l) : l[i] = "#" /\ \A j \in 1..(i - 1) : IsSpace(l[j])

\* a blank line: nothing but whitespace
IsBlankLine(l) == \A i \in 1..Len(l) : IsSpace(l[i])

\* a well-formed line: a key, whitespace, a value
IsWellFormed(l) ==
    ~IsCommentLine(l) /\ ~IsBlankLine(l) /\ Len(Split1(Bare(l))) = 2

KeywordOf(l) == Split1(Bare(l))[1]
ValueOf(l) == Split1(Bare(l))[2]

\* a well-formed Host line, the keyword in any letter case
IsHostLine(l) == IsWellFormed(l) /\ StrLower(KeywordOf(l)) = w_host

\* a well-formed line with another keyword
IsDirectiveLine(l) == IsWellFormed(l) /\ StrLower(KeywordOf(l)) # w_host

\* the aliases of the Host lines of a file, in file order
HostAliases(content) ==
    LET hl == SelectSeq(content, IsHostLine)
    IN  [i \in 1..Len(hl) |-> ValueOf(hl[i])]

Distinct(seq) ==
    \A i, j \in 1..Len(seq) : i # j => seq[i] # seq[j]

Parsed == pc = "done" /\ fs = "ok"

\* ----------------------------------------------------------------------- C1
\* C1: when the well-formed Host lines of the file carry pairwise distinct
\* aliases, list_hosts() after construction returns exactly those aliases,
\* each once, in the order of their Host lines, the last host and hosts
\* without directives included.
C1_ListHostsInFileOrder ==
    (Parsed /\ Distinct(HostAliases(file))) =>
        /\ list_hosts(hosts) = HostAliases(file)
        /\ result.op = "list_hosts" => result.ret = HostAliases(file)

\* list_hosts() has returned two or more aliases of a file that ends with a
\* Host line, so the last host has no directives
C1_Witness ==
    /\ Parsed
    /\ Distinct(HostAliases(file))
    /\ result.op = "list_hosts"
    /\ Len(result.ret) >= 2
    /\ IsHostLine(file[Len(file)])

\* ----------------------------------------------------------------------- C2
\* the index of the last Host line declaring alias a
LastDeclaration(content, a) ==
    CHOOSE i \in 1..Len(content) :
        /\ IsHostLine(content[i]) /\ ValueOf(content[i]) = a
        /\ \A j \in (i + 1)..Len(content) :
              ~(IsHostLine(content[j]) /\ ValueOf(content[j]) = a)

\* the lines of the block that line i opens: up to the next Host line
BlockOf(content, i) ==
    { m \in (i + 1)..Len(content) :
        \A j \in (i + 1)..m : ~IsHostLine(content[j]) }

\* the directive keys, lower-cased, that occur in a set of lines
DirectiveKeys(content, ms) ==
    { StrLower(KeywordOf(content[m])) :
        m \in { n \in ms : IsDirectiveLine(content[n]) } }

Occurrences(seq, x) == Cardinality({ i \in 1..Len(seq) : seq[i] = x })

KeySet(d) == { d[i].k : i \in 1..Len(d) }

\* C2: an alias declared by several Host lines has one entry, and that
\* entry holds the directives that follow the last declaration (up to the
\* next Host line or the end of the file) and nothing of an earlier block.
C2_LastDeclarationWins ==
    Parsed =>
        \A i \in 1..Len(file) :
            IsHostLine(file[i]) =>
                LET a == ValueOf(file[i])
                    last == LastDeclaration(file, a)
                IN  /\ Occurrences(DictKeys(hosts), a) = 1
                    /\ KeySet(DictGet(Directory, a)) =
                          {w_line_number}
                            \cup DirectiveKeys(file, BlockOf(file, last))

\* an alias is declared twice and a directive of the earlier block is not
\* in the final entry
C2_Witness ==
    /\ Parsed
    /\ \E i, j \in 1..Len(file) :
          /\ i < j
          /\ IsHostLine(file[i]) /\ IsHostLine(file[j])
          /\ ValueOf(file[i]) = ValueOf(file[j])
          /\ DirectiveKeys(file, BlockOf(file, i)) # {}
          /\ DirectiveKeys(file, BlockOf(file, i))
                \cap KeySet(DictGet(Directory, ValueOf(file[i]))) = {}

\* ----------------------------------------------------------------------- C3
\* the line with its key (the first word) rewritten by Case
RewriteKey(l, Case(_)) ==
    LET t == LStrip(l)
        lead == Len(l) - Len(t)
        n == TokenLen(t)
    IN  SubSeq(l, 1, lead) \o Case(SubSeq(t, 1, n)) \o Drop(t, n + 1)

LowerKeys(content) ==
    [i \in 1..Len(content) |-> RewriteKey(content[i], StrLower)]

UpperKeys(content) ==
    [i \in 1..Len(content) |-> RewriteKey(content[i], StrUpper)]

\* C3: keys are matched and stored case-insensitively.  The directory of a
\* file equals the directory of the same file with every key in lower case
\* and with every key in upper case (so two files that differ only in the
\* case of keys, the Host keyword included, have the same directory), and
\* every stored key is in lower case.
C3_KeysCaseInsensitive ==
    Parsed =>
        /\ Directory = DirectoryOf(LowerKeys(file))
        /\ Directory = DirectoryOf(UpperKeys(file))
        /\ \A i \in 1..Len(Directory) :
              \A k \in KeySet(Directory[i].v) : StrLower(k) = k

\* a directive written HostName is stored under hostname, in a file whose
\* keys are not all lower case
C3_Witness ==
    /\ Parsed
    /\ LowerKeys(file) # file
    /\ \E m \in 1..Len(file) :
          /\ IsDirectiveLine(file[m])
          /\ KeywordOf(file[m]) = w_HostName
    /\ \E i \in 1..Len(Directory) :
          /\ DictHas(Directory[i].v, w_hostname)
          /\ DictGet(Directory[i].v, w_hostname) = StrVal(w_ip)

\* ----------------------------------------------------------------------- C4
\* the positions of the directory whose alias or hostname directive is a
Candidates(a) ==
    { i \in 1..Len(Directory) :
        \/ Directory[i].k = a
        \/ \E j \in 1..Len(Directory[i].v) :
              /\ Directory[i].v[j].k = w_hostname
              /\ ~Directory[i].v[j].v.isInt
              /\ Directory[i].v[j].v.s = a }

Minimum(S) == CHOOSE i \in S : \A j \in S : i <= j

\* C4: find_host_by_ip(address) returns the first alias in directory order
\* whose alias string or hostname directive equals address, and None when
\* there is none; for Host dev / HostName 10.0.0.5 both '10.0.0.5' and
\* 'dev' resolve to 'dev'.
C4_FindHostByIpFirstMatch ==
    (pc = "done" /\ result.op = "find_host_by_ip") =>
        /\ IF Candidates(result.arg) = {}
           THEN result.ret = NoneV
           ELSE result.ret = Some(Directory[Minimum(Candidates(result.arg))].k)
        /\ (/\ fs = "ok"
            /\ file = << w_Host \o <<SP>> \o w_dev, w_HostName \o <<SP>> \o w_ip >>
            /\ result.arg \in {w_dev, w_ip}) => result.ret = Some(w_dev)

\* two entries pass a test, the earlier through its hostname and the later
\* through its alias, and the earlier one was returned
C4_Witness ==
    /\ pc = "done"
    /\ result.op = "find_host_by_ip"
    /\ Cardinality(Candidates(result.arg)) >= 2
    /\ result.ret.some
    /\ result.ret.v # result.arg
    /\ DictHas(hosts, result.arg)

\* ----------------------------------------------------------------------- C5
\* pattern occurs in alias when letter case is disregarded
ContainsAnyCase(alias, pattern) ==
    \E i \in 0..(Len(alias) - Len(pattern)) :
        \A j \in 1..Len(pattern) :
            LowerChar(alias[i + j]) = LowerChar(pattern[j])

AliasContainsArg(item) == ContainsAnyCase(item.k, result.arg)

\* C5: search_hosts(pattern) returns exactly the entries whose alias
\* contains pattern, compared without regard to letter case, each with its
\* directory entry and in directory order.
C5_SearchHostsExact ==
    (pc = "done" /\ result.op = "search_hosts") =>
        result.ret = SelectSeq(hosts, AliasContainsArg)

\* the pattern in upper case has matched two aliases written differently
\* and left out a third
C5_Witness ==
    /\ pc = "done"
    /\ result.op = "search_hosts"
    /\ Len(result.ret) = 2
    /\ Len(hosts) = 3
    /\ \A i \in 1..Len(result.ret) : result.ret[i].k # result.arg

\* ----------------------------------------------------------------------- C6
\* C6: get_host(alias) returns the entry stored under exactly that alias
\* string, and None, without raising, for any string that is not a key.
C6_GetHostExactMatch ==
    (pc = "done" /\ result.op = "get_host") =>
        IF \E i \in 1..Len(hosts) : hosts[i].k = result.arg
        THEN /\ result.ret.some
             /\ \E i \in 1..Len(hosts) :
                   hosts[i].k = result.arg /\ hosts[i].v = result.ret.v
        ELSE result.ret = NoneRef

\* None was returned although an alias differs from the argument only in
\* letter case
C6_Witness ==
    /\ pc = "done"
    /\ result.op = "get_host"
    /\ result.ret = NoneRef
    /\ \E i \in 1..Len(hosts) :
          StrLower(hosts[i].k) = StrLower(result.arg)

\* ----------------------------------------------------------------------- C7
\* what each lookup returns on an empty directory
EmptyAnswer ==
    CASE result.op = "get_host" -> result.ret = NoneRef
      [] result.op = "list_hosts" -> result.ret = <<>>
      [] result.op = "get_all_hosts" -> result.ret = EmptyDict
      [] result.op = "search_hosts" -> result.ret = EmptyDict
      [] result.op = "find_host_by_ip" -> result.ret = NoneV
      [] OTHER -> TRUE

\* C7: constructing the parser on a path that does not exist raises
\* nothing and leaves the directory empty, and every lookup on that
\* instance returns None or an empty collection.
C7_MissingFileEmptyDirectory ==
    fs = "missing" =>
        /\ pc # "raised"
        /\ hosts = EmptyDict
        /\ EmptyAnswer

\* a lookup by address has been answered on the parser of a missing file
C7_Witness ==
    /\ fs = "missing"
    /\ pc = "done"
    /\ diag = "notfound"
    /\ result.op = "find_host_by_ip"

\* ----------------------------------------------------------------------- C8
\* C8: the constructor never raises, whatever the condition of the file; a
\* file that cannot be opened or read leaves an empty directory, as a
\* missing file does.
C8_ConstructorNeverRaises ==
    /\ pc # "raised"
    /\ (pc = "done" /\ fs # "ok") => hosts = EmptyDict

\* ----------------------------------------------------------------------- C9
\* what get_host(a) hands to the caller: None, or the dict the returned
\* reference points to
GetHostAnswer(a) ==
    LET r == get_host(hosts, a)
    IN  IF r.some THEN [some |-> TRUE, ref |-> r.v, config |-> heap[r.v]]
        ELSE [some |-> FALSE, ref |-> 0, config |-> EmptyDict]

\* C9: the structure get_all_hosts() returns is not aliased to the parser's
\* table: whatever the caller does to it (adding or deleting an alias,
\* adding, changing or deleting a directive of a returned entry), every
\* later get_host(alias) returns what it returned before.
C9_SnapshotIndependent ==
    [][HasSnapshot =>
          \A a \in QueryArgs : GetHostAnswer(a)' = GetHostAnswer(a)]_vars

\* ---------------------------------------------------------------------- C10
\* the file without its comment lines and blank lines
IsKept(l) == ~IsCommentLine(l) /\ ~IsBlankLine(l)

WithoutSkipped(content) == SelectSeq(content, IsKept)

\* the directory with the line numbers blanked
SansLineNumbers(dir) ==
    [i \in 1..Len(dir) |->
        [k |-> dir[i].k,
         v |-> [j \in 1..Len(dir[i].v) |->
                  IF dir[i].v[j].v.isInt
                  THEN [k |-> dir[i].v[j].k, v |-> IntVal(0)]
                  ELSE dir[i].v[j]]]]

\* C10: comment lines and blank lines are skipped without touching the
\* parser's state; the aliases, the host of every directive and every
\* directive value are those of the file without these lines.
C10_CommentsAndBlanksSkipped ==
    /\ [](Parsed =>
            SansLineNumbers(Directory)
              = SansLineNumbers(DirectoryOf(WithoutSkipped(file))))
    /\ [][(/\ pc = "loop"
           /\ line_num <= Len(lines)
           /\ (IsCommentLine(lines[line_num]) \/ IsBlankLine(lines[line_num])))
          => UNCHANGED <<hosts, heap, current_host, current_config>>]_vars

\* a comment or blank line stands between a Host line and a directive that
\* was stored in the entry of that host
C10_Witness ==
    /\ Parsed
    /\ Len(file) >= 3
    /\ IsHostLine(file[1])
    /\ IsCommentLine(file[2]) \/ IsBlankLine(file[2])
    /\ IsDirectiveLine(file[3])
    /\ DictHas(DictGet(Directory, ValueOf(file[1])), StrLower(KeywordOf(file[3])))

\* ------------------------------------------------------- the parse pass alone
w_Line_Number == <<"L","i","n","e","_","N","u","m","b","e","r">>
w_9 == <<"9">>

\* the lines of LinePool and a directive whose key is line_number
ParsePool == LinePool \cup { w_Line_Number \o <<SP>> \o w_9 }   \* Line_Number 9

ParseFilesUpTo(n) == UNION { [1..m -> ParsePool] : m \in 0..n }

\* entry of _parse_config, as Init, on the files made of ParsePool
InitParse ==
    /\ fs \in FsStates
    /\ file \in CASE fs = "ok" -> ParseFilesUpTo(MaxLines)
                  [] fs = "missing" -> {<<>>}
                  [] OTHER -> ParseFilesUpTo(MaxUnreadableLines)
    /\ pc = "exists"
    /\ fh = "none"
    /\ diag = "none"
    /\ hosts = EmptyDict
    /\ heap = <<>>
    /\ lines = <<>>
    /\ line_num = 0
    /\ current_host = NoneV
    /\ current_config = 0
    /\ result = NoResult

\* the constructor, followed line by line, with no lookup after it
SpecParse == InitParse /\ [][Construct]_vars

\* ---------------------------------------------------------------------- C14
\* C14: the file handle is open only during the read step: it is closed
\* when the first line is interpreted and whenever _parse_config has
\* returned or raised, on every path.
C14_HandleReleased ==
    /\ fh = "open" => pc = "read"
    /\ pc = "loop" => fh = "closed"
    /\ pc \in {"done", "raised"} => fh # "open"
    /\ (pc = "done" /\ fs \in {"ok", "undecodable"}) => fh = "closed"

\* the read failed on a file that had been opened, and the handle is closed
C14_Witness ==
    /\ pc = "done"
    /\ fs = "undecodable"
    /\ diag = "readerror"
    /\ fh = "closed"

\* ---------------------------------------------------------------------- C17
\* the lines the loop has already processed
Processed == SubSeq(lines, 1, line_num - 1)

\* the aliases whose block has been closed by a later Host line
ClosedAliases(content) ==
    LET ha == HostAliases(content) IN { ha[i] : i \in 1..(Len(ha) - 1) }

\* the alias of the block that is still open, if any
OpenAlias(content) ==
    LET ha == HostAliases(content)
    IN  IF ha = <<>> THEN NoneV ELSE Some(ha[Len(ha)])

\* C17: during the parse pass the directory changes only when a well-formed
\* Host line is processed or after the final line; at every step of the loop
\* it holds exactly the hosts whose blocks are closed while the open block's
\* alias is held aside, and after the final line the host still being
\* accumulated is in the directory.
C17_CommitPoints ==
    /\ [](pc = "loop" =>
            /\ KeySet(hosts) = ClosedAliases(Processed)
            /\ current_host = OpenAlias(Processed))
    /\ []((Parsed /\ current_host.some) =>
            /\ DictHas(hosts, current_host.v)
            /\ DictGet(hosts, current_host.v) = current_config)
    /\ [][hosts' # hosts =>
            /\ pc = "loop"
            /\ line_num > Len(lines) \/ IsHostLine(lines[line_num])]_vars

\* all lines are processed, an earlier host is in the directory and the last
\* host is still held aside, just before the final commit
C17_Witness ==
    /\ pc = "loop"
    /\ line_num > Len(lines)
    /\ hosts # EmptyDict
    /\ current_host.some
    /\ ~DictHas(hosts, current_host.v)
    /\ Len(heap[current_config]) >= 2

\* ---------------------------------------------------------------------- C18
\* C18: in the final directory every entry's line_number is the 1-based
\* index, counted over all lines of the file, of the last Host line that
\* declared the entry.
C18_LineNumberOfDeclaration ==
    Parsed =>
        \A i \in 1..Len(Directory) :
            /\ DictHas(Directory[i].v, w_line_number)
            /\ DictGet(Directory[i].v, w_line_number)
                  = IntVal(LastDeclaration(file, Directory[i].k))

\* ---------------------------------------------------------------------- C19
\* the file from its first Host line on
FromFirstHost(content) ==
    IF \E i \in 1..Len(content) : IsHostLine(content[i])
    THEN SubSeq(content,
                Minimum({ i \in 1..Len(content) : IsHostLine(content[i]) }),
                Len(content))
    ELSE <<>>

\* C19: directive lines before the first Host line are ignored: a file
\* without a Host line yields an empty directory, and the entries are those
\* of the file cut at its first Host line, so that no host holds a key of a
\* directive that precedes every host.
C19_PreHostDirectivesIgnored ==
    Parsed =>
        /\ HostAliases(file) = <<>> => hosts = EmptyDict
        /\ SansLineNumbers(Directory)
              = SansLineNumbers(DirectoryOf(FromFirstHost(file)))

\* a directive stands before the first Host line and its key is not in the
\* entry of that host
C19_Witness ==
    /\ Parsed
    /\ Len(file) >= 2
    /\ IsDirectiveLine(file[1])
    /\ IsHostLine(file[2])
    /\ ~DictHas(DictGet(Directory, ValueOf(file[2])),
                StrLower(KeywordOf(file[1])))

\* ---------------------------------------------------------------------- C20
\* the lines among ms that are directives with key k, letter case apart
LinesWithKey(content, ms, k) ==
    { m \in ms : IsDirectiveLine(content[m])
                   /\ StrLower(KeywordOf(content[m])) = k }

Maximum(S) == CHOOSE i \in S : \A j \in S : j <= i

\* C20: within one block a key that occurs several times, in any letter
\* case, is stored once with the value of its last occurrence, and an entry
\* holds only directives of the block of its own host.
C20_LastDirectiveWins ==
    Parsed =>
        \A i \in 1..Len(Directory) :
            LET entry == Directory[i].v
                block == BlockOf(file, LastDeclaration(file, Directory[i].k))
            IN  /\ KeySet(entry) \ {w_line_number}
                      \subseteq DirectiveKeys(file, block)
                /\ \A k \in DirectiveKeys(file, block) :
                      /\ Occurrences(DictKeys(entry), k) = 1
                      /\ DictGet(entry, k) =
                            StrVal(ValueOf(
                              file[Maximum(LinesWithKey(file, block, k))]))

\* a block writes one key twice in different letter case, with different
\* values, and the entry holds the second value
C20_Witness ==
    /\ Parsed
    /\ \E h, m, n \in 1..Len(file) :
          /\ IsHostLine(file[h])
          /\ h < m /\ m < n
          /\ {m, n} \subseteq BlockOf(file, h)
          /\ IsDirectiveLine(file[m]) /\ IsDirectiveLine(file[n])
          /\ KeywordOf(file[m]) # KeywordOf(file[n])
          /\ StrLower(KeywordOf(file[m])) = StrLower(KeywordOf(file[n]))
          /\ ValueOf(file[m]) # ValueOf(file[n])
          /\ DictGet(DictGet(Directory, ValueOf(file[h])),
                     StrLower(KeywordOf(file[n]))) = StrVal(ValueOf(file[n]))

\* ----------------------------------------------------------------- printing
\* one printed line: what it is, and its one or two variable parts
OutLine(kind, a, b) == [kind |-> kind, a |-> a, b |-> b]

DigitChars == <<"0","1","2","3","4","5","6","7","8","9">>

\* str(n) of a natural number
RECURSIVE IntStr(_)
IntStr(n) ==
    IF n < 10 THEN <<DigitChars[n + 1]>>
    ELSE IntStr(n \div 10) \o <<DigitChars[(n % 10) + 1]>>

\* the value as an f-string formats it
ValStr(v) == IF v.isInt THEN IntStr(v.n) ELSE v.s

\* str.capitalize()
Capitalize(s) ==
    [i \in 1..Len(s) |-> IF i = 1 THEN UpperChar(s[i]) ELSE LowerChar(s[i])]

\* "-" * n
Dashes(n) == [i \in 1..n |-> "-"]

\* lines 161-163: one line per item except line_number
RECURSIVE PrintItems(_)
PrintItems(config) ==
    IF config = <<>> THEN <<>>
    ELSE (IF config[1].k # w_line_number
          THEN <<OutLine("directive", Capitalize(config[1].k), ValStr(config[1].v))>>
          ELSE <<>>) \o PrintItems(Tail(config))

\* lines 150-163
print_host_info(h, hp, hostname) ==
    LET host_config == get_host(h, hostname)
    IN  IF ~host_config.some \/ hp[host_config.v] = EmptyDict
        THEN <<OutLine("host_not_found", hostname, <<>>)>>
        ELSE <<OutLine("host", hostname, <<>>),
               OutLine("rule", Dashes(Len(hostname) + 6), <<>>)>>
             \o PrintItems(hp[host_config.v])

\* the characters in the order of their code points
CodeOrder ==
    <<TAB, NL, SP, "#", "*", "-", ".">> \o DigitChars \o UpperLetters
      \o <<"_">> \o LowerLetters

Ord(c) == CHOOSE i \in 1..Len(CodeOrder) : CodeOrder[i] = c

\* a < b for two strings
RECURSIVE StrLess(_, _)
StrLess(a, b) ==
    IF b = <<>> THEN FALSE
    ELSE IF a = <<>> THEN TRUE
    ELSE IF a[1] = b[1] THEN StrLess(Tail(a), Tail(b))
    ELSE Ord(a[1]) < Ord(b[1])

\* sorted(names) of distinct strings
RECURSIVE Sorted(_)
Sorted(names) ==
    IF names = <<>> THEN <<>>
    ELSE LET i == CHOOSE i \in 1..Len(names) :
                     \A j \in 1..Len(names) : j # i => StrLess(names[i], names[j])
         IN  <<names[i]>>
               \o Sorted(SubSeq(names, 1, i - 1) \o SubSeq(names, i + 1, Len(names)))

\* lines 174-176 for the hosts from position i of the sorted aliases
RECURSIVE PrintEach(_, _, _, _)
PrintEach(h, hp, names, i) ==
    IF i > Len(names) THEN <<>>
    ELSE print_host_info(h, hp, names[i]) \o <<OutLine("blank", <<>>, <<>>)>>
           \o PrintEach(h, hp, names, i + 1)

\* lines 165-176
print_all_hosts(h, hp) ==
    IF h = EmptyDict THEN <<OutLine("no_hosts", <<>>, <<>>)>>
    ELSE <<OutLine("found", IntStr(Len(h)), <<>>),
           OutLine("rule", [i \in 1..50 |-> "="], <<>>)>>
         \o PrintEach(h, hp, Sorted(DictKeys(h)), 1)

\* print_host_info() with host_config.pop('line_number') before the loop
CallPrintHostInfo_Pop ==
    /\ pc = "done"
    /\ \E a \in QueryArgs :
          /\ result' = [op |-> "print_host_info", arg |-> a,
                        ret |-> print_host_info(hosts, heap, a)]
          /\ heap' = IF DictHas(hosts, a)
                        /\ DictHas(heap[DictGet(hosts, a)], w_line_number)
                     THEN [heap EXCEPT ![DictGet(hosts, a)] =
                                         DictDel(@, w_line_number)]
                     ELSE heap
    /\ UNCHANGED <<fs, file, pc, fh, diag, hosts, lines, line_num,
                   current_host, current_config>>

CallPrintHostInfo ==
    /\ pc = "done"
    /\ \E a \in QueryArgs :
          result' = [op |-> "print_host_info", arg |-> a,
                     ret |-> print_host_info(hosts, heap, a)]
    /\ UNCHANGED Returned

CallPrintAllHosts ==
    /\ pc = "done"
    /\ result' = [op |-> "print_all_hosts", arg |-> <<>>,
                  ret |-> print_all_hosts(hosts, heap)]
    /\ UNCHANGED Returned

PrintHelper == CallPrintHostInfo \/ CallPrintAllHosts

\* the parser with its lookups and its print helpers
SpecReads == Init /\ [][Construct \/ Lookup \/ PrintHelper]_vars

\* ---------------------------------------------------------------------- C11
\* C11: no lookup and no print helper mutates the directory: after any
\* sequence of these calls the aliases, their order and the directives of
\* every entry are those the construction left.
C11_ReadsDoNotMutate ==
    /\ [][pc = "done" => (hosts' = hosts /\ heap' = heap)]_vars
    /\ [](Parsed => Directory = DirectoryOf(file))

\* print_all_hosts() has printed two hosts or more, one of them with a
\* directive, and the directory is that of the file
C11_Witness ==
    /\ Parsed
    /\ result.op = "print_all_hosts"
    /\ Len(hosts) >= 2
    /\ \E i \in 1..Len(result.ret) : result.ret[i].kind = "directive"
    /\ Directory = DirectoryOf(file)

\* ---------------------------------------------------------------------- C13
\* C13: every lookup returns without raising on every directory, the empty
\* one included, and a lookup that finds nothing says so only through its
\* sentinel: None for get_host and find_host_by_ip, an empty dict for
\* search_hosts.
C13_LookupsTotal ==
    /\ [][pc = "done" => pc' = "done"]_vars
    /\ [](pc = "done" =>
            CASE result.op = "get_host" ->
                    (result.ret = NoneRef) <=> ~DictHas(hosts, result.arg)
              [] result.op = "find_host_by_ip" ->
                    (result.ret = NoneV) <=> (Candidates(result.arg) = {})
              [] result.op = "search_hosts" ->
                    (result.ret = EmptyDict) <=>
                        ~\E i \in 1..Len(hosts) :
                            ContainsAnyCase(hosts[i].k, result.arg)
              [] result.op \in {"list_hosts", "get_all_hosts"} ->
                    Len(result.ret) = Len(hosts)
              [] OTHER -> TRUE)

\* search_hosts() has answered with the empty dict on the empty directory
\* of a file that has lines but no host
C13_Witness ==
    /\ Parsed
    /\ file # <<>>
    /\ hosts = EmptyDict
    /\ result.op = "search_hosts"
    /\ result.ret = EmptyDict

\* ------------------------------------------- aliases with spaces and wildcards
w_a == <<"a">>
w_a_b == <<"a", SP, "b">>
w_d_star == <<"d", "*">>
w_star == <<"*">>

\* Host a b, Host d*, Host dev, hostname a
AliasPool ==
    { w_Host \o <<SP>> \o w_a_b,
      w_Host \o <<SP>> \o w_d_star,
      w_Host \o <<SP>> \o w_dev,
      w_hostname \o <<SP>> \o w_a }

AliasFilesUpTo(n) == UNION { [1..m -> AliasPool] : m \in 0..n }

\* the strings looked up
AliasArgs == {w_a, w_a_b, w_d_star, w_dev, w_star}

\* entry of _parse_config, as Init, on the files made of AliasPool
InitAlias ==
    /\ fs \in FsStates
    /\ file \in CASE fs = "ok" -> AliasFilesUpTo(MaxLines)
                  [] fs = "missing" -> {<<>>}
                  [] OTHER -> AliasFilesUpTo(MaxUnreadableLines)
    /\ pc = "exists"
    /\ fh = "none"
    /\ diag = "none"
    /\ hosts = EmptyDict
    /\ heap = <<>>
    /\ lines = <<>>
    /\ line_num = 0
    /\ current_host = NoneV
    /\ current_config = 0
    /\ result = NoResult

\* --------------------------------------------------- the file after the parse
\* what another process may do to the configuration file once the parser is
\* constructed, and the construction of a new parser on the same path

\* the content the file is replaced with
Replacement == << w_host \o <<SP>> \o w_Dev, w_hostname \o <<SP>> \o w_dev >>

\* the file is deleted
FileDelete ==
    /\ pc = "done"
    /\ fs = "ok"
    /\ fs' = "missing"
    /\ file' = <<>>
    /\ UNCHANGED <<pc, fh, diag, hosts, heap, lines, line_num,
                   current_host, current_config, result>>

\* the file is written or replaced
FileReplace ==
    /\ pc = "done"
    /\ fs \in {"ok", "missing"}
    /\ file # Replacement
    /\ fs' = "ok"
    /\ file' = Replacement
    /\ UNCHANGED <<pc, fh, diag, hosts, heap, lines, line_num,
                   current_host, current_config, result>>

\* lines 13-30 for a new parser on the same path; the old one is dropped
NewInstance ==
    /\ pc = "done"
    /\ pc' = "exists"
    /\ fh' = "none"
    /\ diag' = "none"
    /\ hosts' = EmptyDict
    /\ heap' = <<>>
    /\ lines' = <<>>
    /\ line_num' = 0
    /\ current_host' = NoneV
    /\ current_config' = 0
    /\ result' = NoResult
    /\ UNCHANGED <<fs, file>>

\* the parser, its lookups, and a file that changes after the construction
SpecFs == InitAlias /\ [][Next \/ FileDelete \/ FileReplace \/ NewInstance]_vars

\* ---------------------------------------------------------------------- C12
\* the directory that the lines read at construction time determine
AsConstructed ==
    LET st == ParseLines(lines) IN Resolve(st.hosts, st.heap)

HostsAsConstructed == ParseLines(lines).hosts

HeapAsConstructed == ParseLines(lines).heap

\* C12: the directory is built once, at construction: when the file is
\* modified, replaced or deleted afterwards the directory does not change
\* and every lookup answers from the content read at construction time.
C12_BuiltOnce ==
    /\ [][(pc = "done" /\ (file' # file \/ fs' # fs)) =>
              (hosts' = hosts /\ heap' = heap)]_vars
    /\ [](pc = "done" =>
            /\ Directory = AsConstructed
            /\ CASE result.op = "list_hosts" ->
                      result.ret = DictKeys(AsConstructed)
                 [] result.op = "get_all_hosts" ->
                      Resolve(result.ret, heap) = AsConstructed
                 [] result.op = "get_host" ->
                      IF DictHas(AsConstructed, result.arg)
                      THEN result.ret.some
                           /\ heap[result.ret.v]
                                = DictGet(AsConstructed, result.arg)
                      ELSE result.ret = NoneRef
                 [] result.op = "search_hosts" ->
                      Resolve(result.ret, heap)
                        = SelectSeq(AsConstructed, AliasContainsArg)
                 [] result.op = "find_host_by_ip" ->
                      result.ret = find_host_by_ip(HostsAsConstructed,
                                                   HeapAsConstructed,
                                                   result.arg)
                 [] OTHER -> TRUE)

\* the file has been deleted after the construction and list_hosts() still
\* returns the hosts read from it
C12_Witness ==
    /\ pc = "done"
    /\ fs = "missing"
    /\ lines # <<>>
    /\ result.op = "list_hosts"
    /\ Len(result.ret) >= 2

\* ------------------------------------------------------------ two instances
\* line 30 with hosts as an attribute of the class, shared by the instances
NewHosts_Shared(h) == h

\* line 30: self.hosts = {}, whatever dict h an earlier instance holds
NewHosts(h) == EmptyDict

\* the file of a second path
OtherFile == << <<SP>> \o w_HOST \o <<TAB>> \o w_prod \o <<SP>>,
                w_hostname \o <<SP>> \o w_dev >>

\* the files a second parser can be constructed on
OtherFiles == (IF fs = "ok" THEN {file} ELSE {}) \cup {OtherFile}

\* lines 13-79 for a second parser in the same process, as one step; the
\* caller holds it, its host dicts are new objects on the heap
ConstructOther ==
    /\ pc = "done"
    /\ result.op = "none"
    /\ \E f \in OtherFiles :
          LET st == ParseFrom(BeginParse(NewHosts(hosts), heap), ReadLines(f), 1)
          IN  /\ heap' = st.heap
              /\ result' = [op |-> "SSHConfigParser", arg |-> f,
                            ret |-> st.hosts]
    /\ UNCHANGED <<fs, file, pc, fh, diag, hosts, lines, line_num,
                   current_host, current_config>>

\* del other.hosts[alias]
OtherDelAlias ==
    /\ pc = "done"
    /\ result.op = "SSHConfigParser"
    /\ result.ret # EmptyDict
    /\ result' = [result EXCEPT !.op = "other_mutated",
                                !.ret = DictDel(@, result.ret[1].k)]
    /\ UNCHANGED Returned

\* other.hosts[alias]['hostname'] = 'x'
OtherSetDirective ==
    /\ pc = "done"
    /\ result.op = "SSHConfigParser"
    /\ \E i \in 1..Len(result.ret) :
          heap' = [heap EXCEPT ![result.ret[i].v] =
                                 DictSet(@, w_hostname, StrVal(w_x))]
    /\ result' = [result EXCEPT !.op = "other_mutated"]
    /\ UNCHANGED <<fs, file, pc, fh, diag, hosts, lines, line_num,
                   current_host, current_config>>

\* self.hosts[alias]['hostname'] = 'x' on the first parser
OwnSetDirective ==
    /\ pc = "done"
    /\ result.op = "SSHConfigParser"
    /\ \E i \in 1..Len(hosts) :
          heap' = [heap EXCEPT ![hosts[i].v] =
                                 DictSet(@, w_hostname, StrVal(w_x))]
    /\ result' = [result EXCEPT !.op = "own_mutated"]
    /\ UNCHANGED <<fs, file, pc, fh, diag, hosts, lines, line_num,
                   current_host, current_config>>

\* two parsers in one process, each mutated by the caller
SpecInstances ==
    Init /\ [][Construct \/ ConstructOther \/ OtherDelAlias
                 \/ OtherSetDirective \/ OwnSetDirective]_vars

\* ---------------------------------------------------------------------- C15
\* the directory of the second parser
OtherDirectory == Resolve(result.ret, heap)

\* C15: every parser owns its directory: constructing a second parser, on
\* the same file or another, or mutating its directory changes nothing in
\* the first (so no lookup on the first changes its answer); the second
\* holds the hosts of its own file only and mutating the first leaves it
\* unchanged.
C15_InstancesIndependent ==
    /\ [][(pc = "done" /\ result'.op \in {"SSHConfigParser", "other_mutated"})
            => (hosts' = hosts /\ Directory' = Directory)]_vars
    /\ [][(pc = "done" /\ result'.op = "own_mutated")
            => OtherDirectory' = OtherDirectory]_vars
    /\ [](result.op = "SSHConfigParser" =>
            OtherDirectory = DirectoryOf(result.arg))

\* a second parser was constructed on the file of the first, which has a
\* host, and a directive was set in one of its entries only
C15_Witness ==
    /\ Parsed
    /\ hosts # EmptyDict
    /\ result.op = "other_mutated"
    /\ result.arg = file
    /\ DictKeys(result.ret) = DictKeys(hosts)
    /\ OtherDirectory # Directory
    /\ Directory = DirectoryOf(file)

\* ------------------------------------------------------------------ the CLI
\* lines 223-234: the branch taken when no flag selects an action
RECURSIVE PrintNames(_)
PrintNames(names) ==
    IF names = <<>> THEN <<>>
    ELSE <<OutLine("name", names[1], <<>>)>> \o PrintNames(Tail(names))

cli_default(h) ==
    <<OutLine("title", <<>>, <<>>), OutLine("config_file", <<>>, <<>>)>>
      \o (IF list_hosts(h) # <<>>
          THEN <<OutLine("found_configured", IntStr(Len(list_hosts(h))), <<>>)>>
                 \o PrintNames(Sorted(list_hosts(h)))
                 \o <<OutLine("use_help", <<>>, <<>>)>>
          ELSE <<OutLine("no_hosts_in_config", <<>>, <<>>)>>)

\* lines 199-203
cli_ip(h, hp, ip) ==
    LET host == find_host_by_ip(h, hp, ip)
    IN  IF Truthy(host)
        THEN print_host_info(h, hp, host.v)
        ELSE <<OutLine("ip_not_found", ip, <<>>)>>

\* lines 196-234 for an invocation whose only action flag is --ip <ip>:
\* line 198 tests the truth of the string, '' goes on to the default branch
main_ip(h, hp, ip) ==
    IF ip # <<>> THEN cli_ip(h, hp, ip) ELSE cli_default(h)

\* the addresses given to --ip
CliAddresses == QueryArgs \cup {<<>>}

\* python get_host.py --config <file> --ip <a>, after the construction
CliIp ==
    /\ pc = "done"
    /\ result.op = "none"
    /\ \E a \in CliAddresses :
          result' = [op |-> "cli_ip", arg |-> a, ret |-> main_ip(hosts, heap, a)]
    /\ UNCHANGED Returned

\* one invocation of the CLI with --ip
SpecCli == InitParse /\ [][Construct \/ CliIp]_vars

\* ---------------------------------------------------------------------- C16
\* the directives of an entry: its items that come from the file
RECURSIVE DirectiveLines(_)
DirectiveLines(config) ==
    IF config = <<>> THEN <<>>
    ELSE (IF ~config[1].v.isInt
          THEN <<OutLine("directive", Capitalize(config[1].k), config[1].v.s)>>
          ELSE <<>>) \o DirectiveLines(Tail(config))

\* C16: --ip <address> prints the header and every directive of the entry of
\* the first alias whose name or hostname is the address, and of no other
\* entry; when there is none it prints the not-found message naming the
\* address and nothing else.
C16_CliIpPrintsResolvedEntry ==
    result.op = "cli_ip" =>
        IF Candidates(result.arg) = {}
        THEN result.ret = <<OutLine("ip_not_found", result.arg, <<>>)>>
        ELSE LET e == Directory[Minimum(Candidates(result.arg))]
             IN  result.ret
                   = <<OutLine("host", e.k, <<>>),
                       OutLine("rule", Dashes(Len(e.k) + 6), <<>>)>>
                     \o DirectiveLines(e.v)

\* the same, for a non-empty address and entries without a directive whose
\* key is line_number: the two cases the code handles as the claim says
C16_Core ==
    (/\ result.op = "cli_ip"
     /\ result.arg # <<>>
     /\ \A i \in 1..Len(Directory) :
           DictHas(Directory[i].v, w_line_number) =>
               DictGet(Directory[i].v, w_line_number).isInt)
      => C16_CliIpPrintsResolvedEntry

\* ---------------------------------------------------------------------- C21
HasSpace(s) == \E i \in 1..Len(s) : IsSpace(s[i])

\* the position of the first whitespace character
FirstSpace(s) ==
    CHOOSE i \in 1..Len(s) : IsSpace(s[i]) /\ \A j \in 1..(i - 1) : ~IsSpace(s[j])

\* the position where the first run of whitespace ends
RemainderStart(s) ==
    CHOOSE i \in (FirstSpace(s) + 1)..Len(s) :
        ~IsSpace(s[i]) /\ \A j \in FirstSpace(s)..(i - 1) : IsSpace(s[j])

FirstWord(s) == SubSeq(s, 1, FirstSpace(s) - 1)

Remainder(s) == SubSeq(s, RemainderStart(s), Len(s))

\* C21: a line that is neither blank nor a comment is split once, at its
\* first run of whitespace: what is stored (the alias of a Host line, the
\* value of a directive) is the whole rest of the stripped line, its inner
\* whitespace unchanged; a line of one token changes neither the current
\* host nor any entry.
C21_SplitOnce ==
    [][(pc = "loop" /\ line_num <= Len(lines)) =>
          LET s == Bare(lines[line_num])
          IN  IF s = <<>> \/ s[1] = "#" THEN TRUE
              ELSE IF ~HasSpace(s)
              THEN UNCHANGED <<hosts, heap, current_host, current_config>>
              ELSE IF StrLower(FirstWord(s)) = w_host
              THEN current_host' = Some(Remainder(s))
              ELSE IF current_host.some
              THEN /\ DictGet(heap'[current_config'], StrLower(FirstWord(s)))
                        = StrVal(Remainder(s))
                   /\ UNCHANGED <<hosts, current_host, current_config>>
              ELSE UNCHANGED <<hosts, heap, current_host, current_config>>]_vars

\* the value '2  2' with its two inner spaces is stored under port, and the
\* lone token Host that follows the host's declaration changed nothing
C21_Witness ==
    /\ Parsed
    /\ Len(file) = 3
    /\ IsHostLine(file[1])
    /\ Bare(file[2]) = w_Host
    /\ IsDirectiveLine(file[3])
    /\ KeywordOf(file[3]) = w_PORT
    /\ DictGet(DictGet(Directory, ValueOf(file[1])), StrLower(w_PORT))
         = StrVal(w_2_2)

\* ---------------------------------------------------------------------- C22
\* the directive lines of the block of the last declaration of alias a
LastBlockDirectives(content, a) ==
    { m \in BlockOf(content, LastDeclaration(content, a)) :
        IsDirectiveLine(content[m]) }

\* C22 as stated: every well-formed directive line of a host block is in
\* the entry of that host under the key as the file writes it.
C22_KeysVerbatim ==
    Parsed =>
        \A i \in 1..Len(Directory) :
            \A m \in LastBlockDirectives(file, Directory[i].k) :
                DictHas(Directory[i].v, KeywordOf(file[m]))

\* C22, amended: there is no list of accepted keys: every well-formed
\* directive line of the block of an alias's last declaration, whatever its
\* key, is in the entry under the key in lower case, with the value of the
\* last line of the block that writes this key.
C22_AnyKeyLowerCased ==
    Parsed =>
        \A i \in 1..Len(Directory) :
            \A m \in LastBlockDirectives(file, Directory[i].k) :
                LET k == StrLower(KeywordOf(file[m]))
                    same == { n \in LastBlockDirectives(file, Directory[i].k) :
                                StrLower(KeywordOf(file[n])) = k }
                IN  /\ DictHas(Directory[i].v, k)
                    /\ DictGet(Directory[i].v, k)
                         = StrVal(ValueOf(file[Maximum(same)]))

\* an entry holds two directives whose keys the file writes PORT and
\* Line_Number, under port and line_number, and neither as written
C22_Witness ==
    /\ Parsed
    /\ \E i \in 1..Len(Directory) :
          /\ \E m, n \in LastBlockDirectives(file, Directory[i].k) :
                KeywordOf(file[m]) = w_PORT /\ KeywordOf(file[n]) = w_Line_Number
          /\ DictGet(Directory[i].v, StrLower(w_PORT)) = StrVal(w_2_2)
          /\ DictGet(Directory[i].v, w_line_number) = StrVal(w_9)
          /\ ~DictHas(Directory[i].v, w_PORT)
          /\ ~DictHas(Directory[i].v, w_Line_Number)

\* ------------------------------------------------------- a second parse pass
\* the file loses its read permission
FileUnreadable ==
    /\ pc = "done"
    /\ fs = "ok"
    /\ fs' = "opendenied"
    /\ UNCHANGED <<file, pc, fh, diag, hosts, heap, lines, line_num,
                   current_host, current_config, result>>

\* self._parse_config() called again on the same instance: line 33 is
\* entered with self.hosts as the earlier pass left it, the locals are new
Reparse ==
    /\ pc = "done"
    /\ Len(heap) <= MaxLines + 1
    /\ pc' = "exists"
    /\ fh' = "none"
    /\ diag' = "none"
    /\ lines' = <<>>
    /\ line_num' = 0
    /\ current_host' = NoneV
    /\ current_config' = 0
    /\ result' = [op |-> "_parse_config", arg |-> <<>>, ret |-> <<>>]
    /\ UNCHANGED <<fs, file, hosts, heap>>

\* the parse pass, run again after the file was changed
SpecReparse ==
    Init /\ [][Construct \/ FileDelete \/ FileReplace \/ FileUnreadable
                 \/ Reparse]_vars

\* ---------------------------------------------------------------------- C23
\* C23: after every parse pass on an instance, a second pass after the file
\* changed, became unreadable or was deleted included, the directory holds
\* exactly the entries derived from the lines this pass read (none when it
\* read nothing) and no alias or directive of an earlier pass.
C23_RebuiltOnEveryParse ==
    pc = "done" => Directory = AsConstructed

\* the same for the first pass only, the one __init__ runs
C23_FirstPass ==
    (pc = "done" /\ result.op # "_parse_config") => Directory = AsConstructed

\* ------------------------------------------------ lookups of literal aliases
\* a name against a pattern that may end with *
GlobMatch(pattern, name) ==
    \/ pattern = name
    \/ /\ pattern # <<>>
       /\ pattern[Len(pattern)] = "*"
       /\ Len(name) >= Len(pattern) - 1
       /\ SubSeq(name, 1, Len(pattern) - 1) = SubSeq(pattern, 1, Len(pattern) - 1)

\* get_host() matching the aliases as patterns, the first match returned
GetHostOf_Glob ==
    /\ pc = "done"
    /\ \E a \in AliasArgs :
          result' = [op |-> "get_host", arg |-> a,
                     ret |-> IF \E i \in 1..Len(hosts) : GlobMatch(hosts[i].k, a)
                             THEN SomeRef(hosts[CHOOSE i \in 1..Len(hosts) :
                                    /\ GlobMatch(hosts[i].k, a)
                                    /\ \A j \in 1..(i - 1) :
                                          ~GlobMatch(hosts[j].k, a)].v)
                             ELSE NoneRef]
    /\ UNCHANGED Returned

\* lines 81-91
GetHostOf ==
    /\ pc = "done"
    /\ \E a \in AliasArgs :
          result' = [op |-> "get_host", arg |-> a, ret |-> get_host(hosts, a)]
    /\ UNCHANGED Returned

\* lines 111-128
SearchHostsOf ==
    /\ pc = "done"
    /\ \E p \in AliasArgs :
          result' = [op |-> "search_hosts", arg |-> p,
                     ret |-> search_hosts(hosts, p)]
    /\ UNCHANGED Returned

\* lines 130-148
FindHostByIpOf ==
    /\ pc = "done"
    /\ \E a \in AliasArgs :
          result' = [op |-> "find_host_by_ip", arg |-> a,
                     ret |-> find_host_by_ip(hosts, heap, a)]
    /\ UNCHANGED Returned

\* the parser and three lookups on aliases with a space or a wildcard
SpecAlias ==
    InitAlias /\ [][Construct \/ GetHostOf \/ SearchHostsOf \/ FindHostByIpOf]_vars

\* ---------------------------------------------------------------------- C24
\* the whole of a well-formed Host line after the keyword and the whitespace
\* that follows it
LiteralAliases(content) ==
    { Remainder(Bare(content[i])) :
        i \in { j \in 1..Len(content) : IsHostLine(content[j]) } }

\* C24: a Host line declares one alias, the entire rest of the line taken
\* literally: Host a b makes the one entry 'a b' and Host d* the one entry
\* 'd*'; get_host finds an entry only under exactly that string,
\* search_hosts only where the pattern occurs in the alias character by
\* character, find_host_by_ip only where the address equals the alias or
\* the hostname, and a * stands for nothing but itself.
C24_OneLiteralAlias ==
    Parsed =>
        /\ KeySet(hosts) = LiteralAliases(file)
        /\ Len(hosts) = Cardinality(LiteralAliases(file))
        /\ result.op = "get_host" =>
              IF result.arg \in LiteralAliases(file)
              THEN /\ result.ret.some
                   /\ result.ret.v = DictGet(hosts, result.arg)
              ELSE result.ret = NoneRef
        /\ result.op = "search_hosts" =>
              result.ret = SelectSeq(hosts, AliasContainsArg)
        /\ result.op = "find_host_by_ip" =>
              IF Candidates(result.arg) = {}
              THEN result.ret = NoneV
              ELSE result.ret = Some(Directory[Minimum(Candidates(result.arg))].k)

\* the file declares d* before dev, and get_host('dev') returned the entry
\* of dev, not the one of d*
C24_Witness ==
    /\ Parsed
    /\ DictKeys(hosts) = <<w_a_b, w_d_star, w_dev>>
    /\ result.op = "get_host"
    /\ result.arg = w_dev
    /\ result.ret = SomeRef(DictGet(hosts, w_dev))
    /\ result.ret # SomeRef(DictGet(hosts, w_d_star))

\* ---------------------------------------------------------------------- C25
\* the parser and find_host_by_ip
SpecFind == Init /\ [][Construct \/ CallFindHostByIp]_vars

\* entry i of the directory has a hostname directive equal to a
HostNameAt(i, a) ==
    /\ DictHas(Directory[i].v, w_hostname)
    /\ DictGet(Directory[i].v, w_hostname) = StrVal(a)

PositionOf(a) == CHOOSE i \in 1..Len(Directory) : Directory[i].k = a

\* C25: an alias r that find_host_by_ip(address) returns is a key of the
\* directory and r is the address or the hostname of r's entry is; every
\* address that is an alias gets a result; an entry whose hostname is the
\* address comes before a later entry whose alias is the address.
C25_FindHostByIpSound ==
    (pc = "done" /\ result.op = "find_host_by_ip") =>
        /\ result.ret.some =>
              /\ DictHas(hosts, result.ret.v)
              /\ \/ result.ret.v = result.arg
                 \/ HostNameAt(PositionOf(result.ret.v), result.arg)
        /\ DictHas(hosts, result.arg) => result.ret.some
        /\ \A i, j \in 1..Len(Directory) :
              (i < j /\ HostNameAt(i, result.arg) /\ Directory[j].k = result.arg)
                  => /\ result.ret.some
                     /\ PositionOf(result.ret.v) <= i

\* the first entry, my-prod-1, has the hostname dev and a later entry is
\* dev itself: find_host_by_ip('dev') returned my-prod-1
C25_Witness ==
    /\ pc = "done"
    /\ result.op = "find_host_by_ip"
    /\ result.arg = w_dev
    /\ Len(Directory) = 2
    /\ Directory[1].k = w_prod
    /\ HostNameAt(1, w_dev)
    /\ Directory[2].k = w_dev
    /\ result.ret = Some(w_prod)

\* ------------------------------------------------- the reads, one after another
\* get_host of every alias of a list
GetEach(h, names) == [i \in 1..Len(names) |-> get_host(h, names[i])]

\* the reads with list_hosts() returning the aliases sorted
CallReads_SortedList ==
    /\ pc = "done"
    /\ \E a \in QueryArgs :
          result' = [op |-> "reads", arg |-> a,
                     ret |-> [get |-> get_host(hosts, a),
                              list |-> Sorted(list_hosts(hosts)),
                              all |-> get_all_hosts(hosts),
                              search |-> search_hosts(hosts, a),
                              each |-> GetEach(hosts, list_hosts(hosts))]]
    /\ UNCHANGED Returned

\* a caller runs get_host(a), list_hosts(), get_all_hosts(), search_hosts(a)
\* and get_host of every listed alias on the same directory
CallReads ==
    /\ pc = "done"
    /\ \E a \in QueryArgs :
          result' = [op |-> "reads", arg |-> a,
                     ret |-> [get |-> get_host(hosts, a),
                              list |-> list_hosts(hosts),
                              all |-> get_all_hosts(hosts),
                              search |-> search_hosts(hosts, a),
                              each |-> GetEach(hosts, list_hosts(hosts))]]
    /\ UNCHANGED Returned

\* the parser and a caller that compares the reads
SpecAgree == Init /\ [][Construct \/ CallReads]_vars

\* ---------------------------------------------------------------------- C26
InSearchResult(x) ==
    \E i \in 1..Len(result.ret.search) : result.ret.search[i].k = x

\* C26: on one directory the reads agree: get_host(a) is not None exactly
\* when a is in list_hosts(); list_hosts() is the key sequence of
\* get_all_hosts() and has no duplicate; the keys of search_hosts(p) are a
\* subsequence of list_hosts() and each is mapped to what get_host returns
\* for it.
C26_ReadsAgree ==
    (pc = "done" /\ result.op = "reads") =>
        LET r == result.ret
        IN  /\ r.get.some <=> (\E i \in 1..Len(r.list) : r.list[i] = result.arg)
            /\ r.list = DictKeys(r.all)
            /\ Distinct(r.list)
            /\ DictKeys(r.search) = SelectSeq(r.list, InSearchResult)
            /\ \A i \in 1..Len(r.search) :
                  \E j \in 1..Len(r.list) :
                      /\ r.list[j] = r.search[i].k
                      /\ r.each[j] = SomeRef(r.search[i].v)

\* three hosts not in sorted order; the pattern DEV is no alias, so
\* get_host gave None, and search_hosts gave the first and the third
C26_Witness ==
    /\ pc = "done"
    /\ result.op = "reads"
    /\ result.arg = w_DEV
    /\ result.ret.get = NoneRef
    /\ result.ret.list = <<w_dev, w_prod, w_Dev>>
    /\ DictKeys(result.ret.search) = <<w_dev, w_Dev>>

\* ---------------------------------------------------------------------- C27
\* the Host keyword alone on its line, in any letter case
IsLoneHost(l) == StrLower(Bare(l)) = w_host

IsNotLoneHost(l) == ~IsLoneHost(l)

\* C27: a Host keyword with no alias after it changes nothing: the current
\* host stays current and stays unsaved, so the directives after it go to
\* the host declared before it, or nowhere when there is none; aliases,
\* directives and values are those of the file without such lines.
C27_LoneHostIgnored ==
    /\ [][(/\ pc = "loop"
           /\ line_num <= Len(lines)
           /\ IsLoneHost(lines[line_num]))
          => UNCHANGED <<hosts, heap, current_host, current_config>>]_vars
    /\ [](Parsed =>
            SansLineNumbers(Directory)
              = SansLineNumbers(DirectoryOf(SelectSeq(file, IsNotLoneHost))))
    /\ [](Parsed =>
            \A m \in 2..(Len(file) - 1) :
                (/\ IsLoneHost(file[m])
                 /\ IsHostLine(file[m - 1])
                 /\ LastDeclaration(file, ValueOf(file[m - 1])) = m - 1
                 /\ IsDirectiveLine(file[m + 1]))
                  => DictHas(DictGet(Directory, ValueOf(file[m - 1])),
                             StrLower(KeywordOf(file[m + 1]))))

\* Host dev, then Host alone, then hostname dev: the entry of dev holds the
\* hostname
C27_Witness ==
    /\ Parsed
    /\ Len(file) = 3
    /\ IsHostLine(file[1])
    /\ ValueOf(file[1]) = w_dev
    /\ IsLoneHost(file[2])
    /\ IsDirectiveLine(file[3])
    /\ Len(hosts) = 1
    /\ DictHas(Directory[1].v, w_hostname)
    /\ DictGet(Directory[1].v, w_hostname) = StrVal(w_dev)

\* ---------------------------------------------------------------------- C28
\* a sequence without the later occurrences of its elements
RECURSIVE FirstOccurrences(_)
FirstOccurrences(seq) ==
    IF seq = <<>> THEN <<>>
    ELSE LET front == FirstOccurrences(SubSeq(seq, 1, Len(seq) - 1))
             x == seq[Len(seq)]
         IN  IF \E i \in 1..Len(front) : front[i] = x THEN front
             ELSE Append(front, x)

\* some alias is declared by two Host lines with a Host line of another
\* alias between them
Redeclared(content) ==
    \E i, j, m \in 1..Len(content) :
        /\ i < m /\ m < j
        /\ IsHostLine(content[i]) /\ IsHostLine(content[m]) /\ IsHostLine(content[j])
        /\ ValueOf(content[i]) = ValueOf(content[j])
        /\ ValueOf(content[m]) # ValueOf(content[i])

\* the aliases stand in the order of their first declarations
C28_Position ==
    Parsed => DictKeys(hosts) = FirstOccurrences(HostAliases(file))

\* C28: an alias declared more than once stands in the directory at the
\* place of its first declaration, also when a Host line of another alias
\* separates the declarations, while its directives are those of its last
\* declaration and its line_number is the number of that declaration's line.
C28_FirstPositionLastContent ==
    Parsed =>
        /\ DictKeys(hosts) = FirstOccurrences(HostAliases(file))
        /\ \A i \in 1..Len(Directory) :
              LET entry == Directory[i].v
                  last == LastDeclaration(file, Directory[i].k)
                  block == BlockOf(file, last)
              IN  Occurrences(HostAliases(file), Directory[i].k) > 1 =>
                      /\ KeySet(entry) = {w_line_number} \cup DirectiveKeys(file, block)
                      /\ \A k \in DirectiveKeys(file, block) \ {w_line_number} :
                            DictGet(entry, k) =
                              StrVal(ValueOf(
                                file[Maximum(LinesWithKey(file, block, k))]))
                      /\ DictGet(entry, w_line_number) = IntVal(last)

\* the position holds, and the content too wherever the last block has no
\* directive whose key is line_number
C28_Core ==
    /\ C28_Position
    /\ (\A m \in 1..Len(file) :
           IsDirectiveLine(file[m]) => StrLower(KeywordOf(file[m])) # w_line_number)
         => C28_FirstPositionLastContent

\* dev is declared on lines 1 and 3 with my-prod-1 between: dev stands
\* first and its line_number is 3
C28_Witness ==
    /\ Parsed
    /\ Redeclared(file)
    /\ DictKeys(hosts) = <<w_dev, w_prod>>
    /\ DictGet(Directory[1].v, w_line_number) = IntVal(3)

\* ---------------------------------------------------------------------- C29
\* the parser and print_host_info
SpecPrint == InitParse /\ [][Construct \/ CallPrintHostInfo]_vars

\* C29: every entry the parse pass produces has the key line_number, so
\* none is empty; every alias is a non-empty string that neither begins nor
\* ends with whitespace; print_host_info prints 'not found' exactly for the
\* strings that are no alias of the directory.
C29_EntriesNeverEmpty ==
    pc = "done" =>
        /\ \A i \in 1..Len(Directory) :
              /\ DictHas(Directory[i].v, w_line_number)
              /\ Directory[i].v # EmptyDict
              /\ Directory[i].k # <<>>
              /\ ~IsSpace(Directory[i].k[1])
              /\ ~IsSpace(Directory[i].k[Len(Directory[i].k)])
        /\ result.op = "print_host_info" =>
              (result.ret = <<OutLine("host_not_found", result.arg, <<>>)>>
                 <=> ~DictHas(hosts, result.arg))

\* dev is declared without any directive, next to an alias written with
\* whitespace around it, and print_host_info('dev') printed its header and
\* no directive
C29_Witness ==
    /\ Parsed
    /\ result.op = "print_host_info"
    /\ result.arg = w_dev
    /\ DictKeys(hosts) = <<w_prod, w_dev>>
    /\ KeySet(DictGet(Directory, w_dev)) = {w_line_number}
    /\ Len(result.ret) = 2
    /\ result.ret[1] = OutLine("host", w_dev, <<>>)

\* ------------------------------------------------------- the CLI, every flag
\* lines 205-211
cli_list(h) ==
    IF list_hosts(h) # <<>>
    THEN <<OutLine("configured_hosts", <<>>, <<>>)>>
           \o PrintNames(Sorted(list_hosts(h)))
    ELSE <<OutLine("no_hosts_in_config", <<>>, <<>>)>>

RECURSIVE PrintInfos(_, _, _)
PrintInfos(h, hp, names) ==
    IF names = <<>> THEN <<>>
    ELSE print_host_info(h, hp, names[1]) \o PrintInfos(h, hp, Tail(names))

\* lines 213-219
cli_search(h, hp, pattern) ==
    LET matching_hosts == search_hosts(h, pattern)
    IN  IF matching_hosts # EmptyDict
        THEN <<OutLine("hosts_matching", pattern, <<>>)>>
               \o PrintInfos(h, hp, Sorted(DictKeys(matching_hosts)))
        ELSE <<OutLine("no_hosts_matching", pattern, <<>>)>>

\* lines 196-234: the branch taken and what it prints
main(h, hp, args) ==
    IF Truthy(args.host)
    THEN [branch |-> "host", out |-> print_host_info(h, hp, args.host.v)]
    ELSE IF Truthy(args.ip)
    THEN [branch |-> "ip", out |-> cli_ip(h, hp, args.ip.v)]
    ELSE IF args.list
    THEN [branch |-> "list", out |-> cli_list(h)]
    ELSE IF Truthy(args.search)
    THEN [branch |-> "search", out |-> cli_search(h, hp, args.search.v)]
    ELSE IF args.all
    THEN [branch |-> "all", out |-> print_all_hosts(h, hp)]
    ELSE [branch |-> "default", out |-> cli_default(h)]

\* lines 184-191: what parse_args() returns; a string flag that is absent
\* is None, one given with an empty argument is ''
CliArgs ==
    [host : {NoneV, Some(<<>>), Some(w_dev)},
     ip : {NoneV, Some(<<>>), Some(w_a)},
     list : BOOLEAN,
     search : {NoneV, Some(<<>>), Some(w_d_star)},
     all : BOOLEAN]

\* one invocation: lines 191-234 after the construction of line 194
CliMain ==
    /\ pc = "done"
    /\ result.op = "none"
    /\ \E args \in CliArgs :
          result' = [op |-> "main", arg |-> args, ret |-> main(hosts, heap, args)]
    /\ UNCHANGED Returned

\* one invocation of the CLI with any combination of flags
SpecMain == InitAlias /\ [][Construct \/ CliMain]_vars

\* ---------------------------------------------------------------------- C30
\* the flags in their order of priority
Priority == <<"host", "ip", "list", "search", "all">>

\* the flag was given on the command line
Supplied(args, flag) ==
    CASE flag = "host" -> args.host.some
      [] flag = "ip" -> args.ip.some
      [] flag = "list" -> args.list
      [] flag = "search" -> args.search.some
      [] flag = "all" -> args.all

\* the first flag of Priority that was given, or the default
Chosen(args) ==
    IF \E i \in 1..Len(Priority) : Supplied(args, Priority[i])
    THEN Priority[CHOOSE i \in 1..Len(Priority) :
                    /\ Supplied(args, Priority[i])
                    /\ \A j \in 1..(i - 1) : ~Supplied(args, Priority[j])]
    ELSE "default"

\* what the action of a flag prints when it runs alone
OutputOf(flag, args) ==
    CASE flag = "host" -> print_host_info(hosts, heap, args.host.v)
      [] flag = "ip" -> cli_ip(hosts, heap, args.ip.v)
      [] flag = "list" -> cli_list(hosts)
      [] flag = "search" -> cli_search(hosts, heap, args.search.v)
      [] flag = "all" -> print_all_hosts(hosts, heap)
      [] OTHER -> cli_default(hosts)

\* C30: an invocation runs one action, that of the flag given that comes
\* first in the order --host, --ip, --list, --search, --all, or the default
\* when none is given; the output is that action's output and nothing else.
C30_OneActionByPriority ==
    result.op = "main" =>
        /\ result.ret.branch = Chosen(result.arg)
        /\ result.ret.out = OutputOf(Chosen(result.arg), result.arg)

\* the same for the invocations that give no flag an empty argument
C30_Core ==
    (/\ result.op = "main"
     /\ Some(<<>>) \notin {result.arg.host, result.arg.ip, result.arg.search})
      => C30_OneActionByPriority

\* all five flags were given with non-empty arguments and only the action
\* of --host ran
C30_Witness ==
    /\ Parsed
    /\ hosts # EmptyDict
    /\ result.op = "main"
    /\ \A i \in 1..Len(Priority) : Supplied(result.arg, Priority[i])
    /\ Truthy(result.arg.host)
    /\ result.ret.branch = "host"
    /\ result.ret.out = print_host_info(hosts, heap, w_dev)

====
